---- MODULE Spec2Model ----
(***************************************************************************)
(* Model of api/index.ts: the avatar endpoint.                             *)
(*                                                                         *)
(*   - SeededRandom (xorshift on a 32-bit state), generateSeed, random,    *)
(*     drawPattern and the request handler.                                *)
(*   - Node runs one handler at a time until it returns or reaches its     *)
(*     `await`; `running` is the request that holds the event loop.        *)
(*   - Math.random() is the process-wide generator of the runtime: every   *)
(*     call may return any value of [0, 1) and advances the one generator  *)
(*     all requests share.                                                 *)
(***************************************************************************)
EXTENDS Integers, Sequences, FiniteSets, TLC

(***************************************************************************)
(* Bounds of the model.                                                    *)
(***************************************************************************)
\* Requests the server receives.
NumRequests == 2
\* Math.random() returns k / MathRandomGrain for some k in 0 .. MathRandomGrain - 1.
MathRandomGrain == 10
\* The count of Math.random() calls is kept up to this value.
MaxCalls == 2
\* nextRange calls made on one SeededRandom instance.
MaxNextCalls == 3
\* nextRange is called with -RangeSpan <= min <= max <= RangeSpan, and with
\* the ranges of the palette and of the offset table.
RangeSpan == 1
\* Seeds given to SeededRandom: the low half is within MaxSeedLow of 0 or of 2^16 - 1.
MaxSeedLow == 3

(***************************************************************************)
(* Program constants.                                                      *)
(***************************************************************************)
gridSize == 10
boxSize == 40
colors == <<"#FFE8FF", "#FFIDFF", "#44106C", "#1A0335", "#672EEB">>
\* settings.offsets, in thousandths: 1.25, 1.35, 1.425, 1.5, 1.6, 2
offsets == <<1250, 1350, 1425, 1500, 1600, 2000>>
\* createCanvas(400, 400), and the modulus of the tile origin
CanvasSize == 400
\* next() returns abs(seed % 1000) / 1000
Resolution == 1000

Requests == 1 .. NumRequests

(***************************************************************************)
(* Numbers.  TLC's integers are signed 32-bit, so an integer Number of     *)
(* JavaScript between -2^31 and 2^32 - 1 is kept as <<hi, lo>>, standing   *)
(* for hi * 2^16 + lo with 0 <= lo < 2^16; a signed 32-bit value is an     *)
(* integer of TLC.                                                         *)
(***************************************************************************)
Half == 2 ^ 16
MinInt32 == -2147483647 - 1

\* ToInt32 of the Number <<hi, lo>>: the operand conversion of ^, << and >>.
ToInt32(n) == (IF n[1] >= Half \div 2 THEN n[1] - Half ELSE n[1]) * Half + n[2]

\* The Number a signed 32-bit value is.
FromInt32(a) == <<a \div Half, a % Half>>

\* Bit k of the two's complement form of a.
Bit(a, k) == IF k = 31 THEN (IF a < 0 THEN 1 ELSE 0) ELSE (a \div (2 ^ k)) % 2

RECURSIVE LowBits(_, _)
LowBits(b, k) == IF k < 0 THEN 0 ELSE b[k] * (2 ^ k) + LowBits(b, k - 1)

\* The signed 32-bit value with the bits b[0] .. b[31].
Int32Of(b) == (IF b[31] = 1 THEN MinInt32 ELSE 0) + LowBits(b, 30)

\* a ^ b
BitXor(a, b) == Int32Of([k \in 0 .. 31 |-> (Bit(a, k) + Bit(b, k)) % 2])

\* a << n
ShiftLeft(a, n) == Int32Of([k \in 0 .. 31 |-> IF k >= n THEN Bit(a, k - n) ELSE 0])

\* a >> n, the sign-propagating shift (\div rounds towards minus infinity)
ShiftRight(a, n) == a \div (2 ^ n)

\* a % b of JavaScript, whose result has the sign of the dividend
\* (% of TLA+ is never negative).
JsRem(a, b) == IF a >= 0 \/ a % b = 0 THEN a % b ELSE (a % b) - b

Abs(x) == IF x < 0 THEN -x ELSE x

(***************************************************************************)
(* class SeededRandom                                                      *)
(***************************************************************************)
\* The three statements of next() that update this.seed, on ToInt32 of the
\* field.
XorShift(seed) ==
    LET s1 == BitXor(seed, ShiftLeft(seed, 13))
        s2 == BitXor(s1, ShiftRight(s1, 17))
    IN  BitXor(s2, ShiftLeft(s2, 5))

\* The value next() returns, as a number of thousandths: the float is
\* NextMilli / 1000.
\* (Variant without Math.abs: seed % 1000 as it is.)
NextMilliNoAbs(seedAfter) == JsRem(seedAfter, Resolution)
NextMilli(seedAfter) == Abs(JsRem(seedAfter, Resolution))

\* nextRange(min, max), given the state next() has just produced:
\* Math.floor(next() * (max - min + 1)) + min.
\* (For the spans of the model the product in floating point has the same
\* floor as the exact one.)
NextRangeValue(seedAfter, min, max) ==
    ((NextMilli(seedAfter) * (max - min + 1)) \div Resolution) + min

(***************************************************************************)
(* generateSeed                                                            *)
(***************************************************************************)
\* createHash("sha256").update(input).digest("hex").slice(0, 8), parsed
\* base 16: the values SHA-256 gives for the inputs of the model.
Sha256Prefix(input) ==
    CASE input = ""      -> <<58288, 50242>>    \* e3b0c442
      [] input = "0xa"   -> <<8091, 33492>>     \* 1f9b82d4
      [] input = "0xa-x" -> <<34003, 24743>>    \* 84d360a7
      [] input = "0xa-y" -> <<22599, 25434>>    \* 5847635a

\* A query parameter that is absent reads as undefined.
Undefined == "undefined"
Truthy(s) == s # Undefined /\ s # ""

generateSeed(address, data) ==
    LET input == IF Truthy(data) THEN address \o "-" \o data ELSE address
    IN  Sha256Prefix(input)

(***************************************************************************)
(* random(min, max): the values Math.floor(Math.random() * (max - min + 1))*)
(* + min can take.                                                         *)
(***************************************************************************)
\* (Variant with Math.floor applied to Math.random() alone.)
randomAlwaysMin(min, max) == { min }
random(min, max) ==
    { ((k * (max - min + 1)) \div MathRandomGrain) + min : k \in 0 .. MathRandomGrain - 1 }

(***************************************************************************)
(* State.                                                                  *)
(***************************************************************************)
VARIABLES
    running,          \* the request whose handler holds the event loop, or 0
    mathRandomCalls,  \* calls made on the shared Math.random generator
    req,              \* req[r].query
    pc,               \* position of handler r
    seed,             \* const seed
    canvas,           \* the canvas of request r
    cell,             \* <<i, j>> of drawPattern's loops
    bgColorIndex, elementColorIndex, offsetIndex,  \* locals of the loop body
    buffer,           \* const buffer
    res,              \* the response
    fetch,            \* the loadImage promise: none, pending, resolved, rejected
    ops,              \* the pipeline operations request r has performed
    rng,              \* a SeededRandom instance: its seed field and calls made
    drawn             \* the last nextRange call on it: min, max, result

handlerVars == <<running, mathRandomCalls, req, pc, seed, canvas, cell,
                 bgColorIndex, elementColorIndex, offsetIndex, buffer, res,
                 fetch, ops>>
rngVars == <<rng, drawn>>
vars == <<running, mathRandomCalls, req, pc, seed, canvas, cell,
          bgColorIndex, elementColorIndex, offsetIndex, buffer, res,
          fetch, ops, rng, drawn>>

NoSeed == <<-1, -1>>
NoIndex == -1
NoCanvas == [created |-> FALSE, tiles |-> 0, probe |-> NoIndex, layers |-> << >>]
NoBuffer == [png |-> FALSE, image |-> NoCanvas]
NoResponse == [status |-> 0, type |-> "", body |-> "", image |-> NoCanvas]
NoQuery == [address |-> Undefined, data |-> Undefined]

\* The pixel whose colour the model of a canvas keeps: the last pixel of
\* the last row.
ProbePixel == <<CanvasSize - 1, CanvasSize - 1>>

\* Query parameters the requests of the model carry.
Addresses == {Undefined, "", "0xa"}
Datas == {Undefined, "x", "y"}

HandlerInit ==
    /\ running = 0
    /\ mathRandomCalls = 0
    /\ req = [r \in Requests |-> NoQuery]
    /\ pc = [r \in Requests |-> "idle"]
    /\ seed = [r \in Requests |-> NoSeed]
    /\ canvas = [r \in Requests |-> NoCanvas]
    /\ cell = [r \in Requests |-> <<0, 0>>]
    /\ bgColorIndex = [r \in Requests |-> NoIndex]
    /\ elementColorIndex = [r \in Requests |-> NoIndex]
    /\ offsetIndex = [r \in Requests |-> NoIndex]
    /\ buffer = [r \in Requests |-> NoBuffer]
    /\ res = [r \in Requests |-> NoResponse]
    /\ fetch = [r \in Requests |-> "none"]
    /\ ops = [r \in Requests |-> << >>]

RngIdle ==
    /\ rng = [seed |-> <<0, 0>>, calls |-> 0]
    /\ drawn = [min |-> 0, max |-> 0, next |-> 0, result |-> 0]

Init == HandlerInit /\ RngIdle

(***************************************************************************)
(* The handler.                                                            *)
(***************************************************************************)
\* One more call on the shared generator.
Called == IF mathRandomCalls < MaxCalls THEN mathRandomCalls + 1 ELSE mathRandomCalls

\* The runtime calls handler(req, res) for a request that has arrived.
\* Requests are numbered in their order of arrival.
Receive(r, address, data) ==
    /\ running = 0
    /\ pc[r] = "idle"
    /\ \A q \in Requests : q < r => pc[q] # "idle"
    /\ running' = r
    /\ req' = [req EXCEPT ![r] = [address |-> address, data |-> data]]
    /\ pc' = [pc EXCEPT ![r] = "validate"]
    /\ UNCHANGED <<mathRandomCalls, seed, canvas, cell, bgColorIndex,
                   elementColorIndex, offsetIndex, buffer, res, fetch, ops>>
    /\ UNCHANGED rngVars

\* if (!address) return res.status(400).json({error: ...})
\* (Variant testing address === undefined.)
RejectsOnlyUndefined(address) == address = Undefined
Rejects(address) == ~Truthy(address)

Validate(r) ==
    /\ running = r
    /\ pc[r] = "validate"
    /\ IF Rejects(req[r].address)
       THEN /\ res' = [res EXCEPT ![r] =
                         [status |-> 400, type |-> "application/json",
                          body |-> "Valid Ethereum address is required",
                          image |-> NoCanvas]]
            /\ pc' = [pc EXCEPT ![r] = "done"]
            /\ running' = 0
       ELSE /\ pc' = [pc EXCEPT ![r] = "seed"]
            /\ UNCHANGED <<res, running>>
    /\ UNCHANGED <<mathRandomCalls, req, seed, canvas, cell, bgColorIndex,
                   elementColorIndex, offsetIndex, buffer, fetch, ops>>
    /\ UNCHANGED rngVars

\* const seed = generateSeed(address)
DeriveSeed(r) ==
    /\ running = r
    /\ pc[r] = "seed"
    /\ seed' = [seed EXCEPT ![r] = generateSeed(req[r].address, Undefined)]
    /\ ops' = [ops EXCEPT ![r] = Append(@, "seed")]
    /\ pc' = [pc EXCEPT ![r] = "canvas"]
    /\ UNCHANGED <<running, mathRandomCalls, req, canvas, cell, bgColorIndex,
                   elementColorIndex, offsetIndex, buffer, res, fetch>>
    /\ UNCHANGED rngVars

\* const canvas = createCanvas(400, 400); drawPattern(ctx) is entered
CreateCanvas(r) ==
    /\ running = r
    /\ pc[r] = "canvas"
    /\ canvas' = [canvas EXCEPT ![r] = [NoCanvas EXCEPT !.created = TRUE]]
    /\ ops' = [ops EXCEPT ![r] = Append(@, "canvas")]
    /\ cell' = [cell EXCEPT ![r] = <<0, 0>>]
    /\ pc' = [pc EXCEPT ![r] = "bg"]
    /\ UNCHANGED <<running, mathRandomCalls, req, seed, bgColorIndex,
                   elementColorIndex, offsetIndex, buffer, res, fetch>>
    /\ UNCHANGED rngVars

(***************************************************************************)
(* drawPattern                                                             *)
(***************************************************************************)
\* const x = (i * settings.boxSize) % 400, and y alike from j
\* (Variant counting cells from 1, without the modulus.)
TileOriginNoWrap(k) == (k + 1) * boxSize
TileOrigin(k) == (k * boxSize) % CanvasSize

\* The pixels fillRect(x, y, boxSize, boxSize) covers.
InTile(px, py, i, j) ==
    /\ TileOrigin(i) <= px /\ px < TileOrigin(i) + boxSize
    /\ TileOrigin(j) <= py /\ py < TileOrigin(j) + boxSize

\* const bgColorIndex = random(0, settings.colors.length - 1)
PickBackground(r) ==
    /\ running = r
    /\ pc[r] = "bg"
    /\ \E v \in random(0, Len(colors) - 1) :
           bgColorIndex' = [bgColorIndex EXCEPT ![r] = v]
    /\ mathRandomCalls' = Called
    /\ pc' = [pc EXCEPT ![r] = "fg"]
    /\ UNCHANGED <<running, req, seed, canvas, cell, elementColorIndex,
                   offsetIndex, buffer, res, fetch, ops>>
    /\ UNCHANGED rngVars

\* let elementColorIndex = random(0, settings.colors.length - 1)
PickElement(r) ==
    /\ running = r
    /\ pc[r] = "fg"
    /\ \E v \in random(0, Len(colors) - 1) :
           elementColorIndex' = [elementColorIndex EXCEPT ![r] = v]
    /\ mathRandomCalls' = Called
    /\ pc' = [pc EXCEPT ![r] = "while"]
    /\ UNCHANGED <<running, req, seed, canvas, cell, bgColorIndex,
                   offsetIndex, buffer, res, fetch, ops>>
    /\ UNCHANGED rngVars

\* while (elementColorIndex === bgColorIndex)
\* (Variant without the redraw loop.)
LoopsAlwaysFalse(r) == FALSE
Loops(r) == elementColorIndex[r] = bgColorIndex[r]

\* the body of the while loop: elementColorIndex = random(...)
Redraw(r) ==
    /\ running = r
    /\ pc[r] = "while"
    /\ Loops(r)
    /\ \E v \in random(0, Len(colors) - 1) :
           elementColorIndex' = [elementColorIndex EXCEPT ![r] = v]
    /\ mathRandomCalls' = Called
    /\ UNCHANGED <<running, req, pc, seed, canvas, cell, bgColorIndex,
                   offsetIndex, buffer, res, fetch, ops>>
    /\ UNCHANGED rngVars

\* the loop is left; offset = boxSize / offsets[random(0, offsets.length - 1)]
PickOffset(r) ==
    /\ running = r
    /\ pc[r] = "while"
    /\ ~Loops(r)
    /\ \E v \in random(0, Len(offsets) - 1) :
           offsetIndex' = [offsetIndex EXCEPT ![r] = v]
    /\ mathRandomCalls' = Called
    /\ pc' = [pc EXCEPT ![r] = "fill"]
    /\ UNCHANGED <<running, req, seed, canvas, cell, bgColorIndex,
                   elementColorIndex, buffer, res, fetch, ops>>
    /\ UNCHANGED rngVars

\* The canvas after the tile of cell <<i, j>> is painted: fillRect with the
\* background colour, then the cut-corner path filled with the element
\* colour.  Every offset is at least boxSize / 2, so the path leaves the
\* corner pixels of the tile in the background colour; ProbePixel is one.
Painted(c, i, j, bg) ==
    [c EXCEPT !.tiles = @ + 1,
              !.probe = IF InTile(ProbePixel[1], ProbePixel[2], i, j) THEN bg ELSE @]

\* Draw background, draw shape, and the loops' increments; drawPattern
\* returns after the last cell.
FillCell(r) ==
    LET i == cell[r][1]
        j == cell[r][2]
        last == i = gridSize - 1 /\ j = gridSize - 1
        c == Painted(canvas[r], i, j, bgColorIndex[r])
    IN  /\ running = r
        /\ pc[r] = "fill"
        /\ cell' = [cell EXCEPT ![r] =
                      IF j + 1 < gridSize THEN <<i, j + 1>> ELSE <<i + 1, 0>>]
        /\ bgColorIndex' = [bgColorIndex EXCEPT ![r] = NoIndex]
        /\ elementColorIndex' = [elementColorIndex EXCEPT ![r] = NoIndex]
        /\ offsetIndex' = [offsetIndex EXCEPT ![r] = NoIndex]
        /\ IF last
           THEN /\ canvas' = [canvas EXCEPT ![r] =
                                [c EXCEPT !.layers = Append(@, "pattern")]]
                /\ ops' = [ops EXCEPT ![r] = Append(@, "pattern")]
                /\ pc' = [pc EXCEPT ![r] = "gradient"]
           ELSE /\ canvas' = [canvas EXCEPT ![r] = c]
                /\ pc' = [pc EXCEPT ![r] = "bg"]
                /\ UNCHANGED ops
        /\ UNCHANGED <<running, mathRandomCalls, req, seed, buffer, res, fetch>>
        /\ UNCHANGED rngVars

(***************************************************************************)
(* The handler, after drawPattern.                                         *)
(***************************************************************************)
\* ctx.fillStyle = gradient; ctx.fillRect(0, 0, canvas.width, canvas.height)
\* (Variant that leaves the gradient out.)
FillGradientSkipped(r) ==
    /\ running = r
    /\ pc[r] = "gradient"
    /\ pc' = [pc EXCEPT ![r] = "load"]
    /\ UNCHANGED <<running, mathRandomCalls, req, seed, canvas, cell, bgColorIndex,
                   elementColorIndex, offsetIndex, buffer, res, fetch, ops>>
    /\ UNCHANGED rngVars
FillGradient(r) ==
    /\ running = r
    /\ pc[r] = "gradient"
    /\ canvas' = [canvas EXCEPT ![r].layers = Append(@, "gradient")]
    /\ ops' = [ops EXCEPT ![r] = Append(@, "gradient")]
    /\ pc' = [pc EXCEPT ![r] = "load"]
    /\ UNCHANGED <<running, mathRandomCalls, req, seed, cell, bgColorIndex,
                   elementColorIndex, offsetIndex, buffer, res, fetch>>
    /\ UNCHANGED rngVars

\* await loadImage(imageUrl): the fetch starts and the handler is suspended
LoadImage(r) ==
    /\ running = r
    /\ pc[r] = "load"
    /\ fetch' = [fetch EXCEPT ![r] = "pending"]
    /\ ops' = [ops EXCEPT ![r] = Append(@, "fetch")]
    /\ pc' = [pc EXCEPT ![r] = "await"]
    /\ running' = 0
    /\ UNCHANGED <<mathRandomCalls, req, seed, canvas, cell, bgColorIndex,
                   elementColorIndex, offsetIndex, buffer, res>>
    /\ UNCHANGED rngVars

\* the promise resolves with the decoded image and the handler resumes
FetchResolved(r) ==
    /\ running = 0
    /\ pc[r] = "await"
    /\ fetch' = [fetch EXCEPT ![r] = "resolved"]
    /\ pc' = [pc EXCEPT ![r] = "watermark"]
    /\ running' = r
    /\ UNCHANGED <<mathRandomCalls, req, seed, canvas, cell, bgColorIndex,
                   elementColorIndex, offsetIndex, buffer, res, ops>>
    /\ UNCHANGED rngVars

\* The handler has returned: its locals are gone.
Returned(r) ==
    /\ pc' = [pc EXCEPT ![r] = "done"]
    /\ running' = 0
    /\ seed' = [seed EXCEPT ![r] = NoSeed]
    /\ canvas' = [canvas EXCEPT ![r] = NoCanvas]
    /\ buffer' = [buffer EXCEPT ![r] = NoBuffer]

\* the promise rejects: the await throws and the catch block answers
\* res.status(500).json({error: "Internal server error"})
\* (Variant that answers with the canvas as it is when the fetch fails.)
FetchRejectedSendsImage(r) ==
    /\ running = 0
    /\ pc[r] = "await"
    /\ fetch' = [fetch EXCEPT ![r] = "rejected"]
    /\ res' = [res EXCEPT ![r] =
                 [status |-> 200, type |-> "image/png", body |-> "png",
                  image |-> canvas[r]]]
    /\ Returned(r)
    /\ UNCHANGED <<mathRandomCalls, req, cell, bgColorIndex,
                   elementColorIndex, offsetIndex, ops>>
    /\ UNCHANGED rngVars
FetchRejected(r) ==
    /\ running = 0
    /\ pc[r] = "await"
    /\ fetch' = [fetch EXCEPT ![r] = "rejected"]
    /\ res' = [res EXCEPT ![r] =
                 [status |-> 500, type |-> "application/json",
                  body |-> "Internal server error", image |-> NoCanvas]]
    /\ Returned(r)
    /\ UNCHANGED <<mathRandomCalls, req, cell, bgColorIndex,
                   elementColorIndex, offsetIndex, ops>>
    /\ UNCHANGED rngVars

\* ctx.save() ... ctx.drawImage(baseImage, ...) ... ctx.restore()
DrawWatermark(r) ==
    /\ running = r
    /\ pc[r] = "watermark"
    /\ canvas' = [canvas EXCEPT ![r].layers = Append(@, "watermark")]
    /\ ops' = [ops EXCEPT ![r] = Append(@, "watermark")]
    /\ pc' = [pc EXCEPT ![r] = "png"]
    /\ UNCHANGED <<running, mathRandomCalls, req, seed, cell, bgColorIndex,
                   elementColorIndex, offsetIndex, buffer, res, fetch>>
    /\ UNCHANGED rngVars

\* const buffer = canvas.toBuffer("image/png")
ToBuffer(r) ==
    /\ running = r
    /\ pc[r] = "png"
    /\ buffer' = [buffer EXCEPT ![r] = [png |-> TRUE, image |-> canvas[r]]]
    /\ ops' = [ops EXCEPT ![r] = Append(@, "png")]
    /\ pc' = [pc EXCEPT ![r] = "send"]
    /\ UNCHANGED <<running, mathRandomCalls, req, seed, canvas, cell, bgColorIndex,
                   elementColorIndex, offsetIndex, res, fetch>>
    /\ UNCHANGED rngVars

\* res.setHeader("Content-Type", "image/png"); res.send(buffer)
Send(r) ==
    /\ running = r
    /\ pc[r] = "send"
    /\ res' = [res EXCEPT ![r] =
                 [status |-> 200, type |-> "image/png", body |-> "png",
                  image |-> buffer[r].image]]
    /\ ops' = [ops EXCEPT ![r] = Append(@, "send")]
    /\ Returned(r)
    /\ UNCHANGED <<mathRandomCalls, req, cell, bgColorIndex,
                   elementColorIndex, offsetIndex, fetch>>
    /\ UNCHANGED rngVars

Step(r) ==
    \/ \E a \in Addresses, d \in Datas : Receive(r, a, d)
    \/ Validate(r)
    \/ DeriveSeed(r)
    \/ CreateCanvas(r)
    \/ PickBackground(r)
    \/ PickElement(r)
    \/ Redraw(r)
    \/ PickOffset(r)
    \/ FillCell(r)
    \/ FillGradient(r)
    \/ LoadImage(r)
    \/ FetchResolved(r)
    \/ FetchRejected(r)
    \/ DrawWatermark(r)
    \/ ToBuffer(r)
    \/ Send(r)

Next == \E r \in Requests : Step(r)

Spec == Init /\ [][Next]_vars

(***************************************************************************)
(* One request handled alone.                                              *)
(***************************************************************************)
NextAlone == Step(1)

SpecAlone == Init /\ [][NextAlone]_vars

\* The synchronous code of drawPattern runs on, and Math.random() does not
\* return the background's fifth of [0, 1) for ever.
RunsOn(r) == PickBackground(r) \/ PickElement(r) \/ PickOffset(r) \/ FillCell(r)
RedrawsAnother(r) == Redraw(r) /\ elementColorIndex'[r] # bgColorIndex[r]

FairAlone ==
    /\ SpecAlone
    /\ WF_vars(RunsOn(1))
    /\ SF_vars(RedrawsAnother(1))

(***************************************************************************)
(* SeededRandom used on its own: new SeededRandom(seed), then calls of     *)
(* nextRange.                                                              *)
(***************************************************************************)
SeedHighs == {0, 1, Half \div 2 - 1, Half \div 2, Half - 1}
SeedLows == (0 .. MaxSeedLow) \cup {Half - 1 - k : k \in 0 .. MaxSeedLow}
SeedSamples ==
    {<<hi, lo>> : hi \in SeedHighs, lo \in SeedLows}
        \cup {Sha256Prefix(i) : i \in {"", "0xa", "0xa-x", "0xa-y"}}

\* constructor(seed)
RngInit ==
    /\ HandlerInit
    /\ \E s \in SeedSamples : rng = [seed |-> s, calls |-> 0]
    /\ drawn = [min |-> 0, max |-> 0, next |-> 0, result |-> 0]

\* nextRange(min, max), with the call of next() it makes
NextRange(min, max) ==
    LET after == XorShift(ToInt32(rng.seed))
    IN  /\ rng.calls < MaxNextCalls
        /\ rng' = [seed |-> FromInt32(after), calls |-> rng.calls + 1]
        /\ drawn' = [min |-> min, max |-> max, next |-> NextMilli(after),
                     result |-> NextRangeValue(after, min, max)]
        /\ UNCHANGED handlerVars

Ranges ==
    {<<min, max>> \in (-RangeSpan .. RangeSpan) \X (-RangeSpan .. RangeSpan) : min <= max}
        \cup {<<0, Len(colors) - 1>>, <<0, Len(offsets) - 1>>}

RngNext == \E range \in Ranges : NextRange(range[1], range[2])

SpecRng == RngInit /\ [][RngNext]_vars

(***************************************************************************)
(* Properties.                                                             *)
(***************************************************************************)
\* The image request r has produced: its response's, once sent.
Image(r) == IF res[r].status = 200 THEN res[r].image ELSE canvas[r]
HasPattern(r) == Len(Image(r).layers) > 0

\* C1: two requests with the same identifier render the same image: once
\* both have drawn their pattern, the pixels of the two patterns agree.
C1_SameIdentifierSameImage ==
    \A r1, r2 \in Requests :
        (/\ HasPattern(r1) /\ HasPattern(r2)
         /\ req[r1].address = req[r2].address)
            => Image(r1).probe = Image(r2).probe

\* C2: when a cell is painted, the element colour index differs from the
\* background colour index, both are indices of the palette and the offset
\* index is an index of the offset table.
C2_DistinctColorsInBounds ==
    \A r \in Requests :
        pc[r] = "fill" =>
            /\ elementColorIndex[r] # bgColorIndex[r]
            /\ bgColorIndex[r] \in 0 .. Len(colors) - 1
            /\ elementColorIndex[r] \in 0 .. Len(colors) - 1
            /\ offsetIndex[r] \in 0 .. Len(offsets) - 1

C2_Witness ==
    \E r \in Requests :
        /\ pc[r] = "fill"
        /\ cell[r] = <<gridSize - 1, gridSize - 1>>
        /\ bgColorIndex[r] = Len(colors) - 1
        /\ offsetIndex[r] = Len(offsets) - 1

\* C3: next() returns a value of [0, 1) and nextRange(min, max) an integer
\* of min .. max, for every seed, every min <= max and every number of
\* earlier calls.
C3_NextRangeInRange ==
    /\ 0 <= drawn.next /\ drawn.next < Resolution
    /\ drawn.min <= drawn.result /\ drawn.result <= drawn.max

C3_Witness ==
    /\ rng.calls > 1
    /\ ToInt32(rng.seed) < 0
    /\ drawn.min < 0 /\ drawn.max > 0
    /\ drawn.result = drawn.max

\* C4: a request without an identifier is answered 400 with a JSON error,
\* and nothing of the pipeline has run for it: no seed, no canvas, no
\* drawing, no fetch, no image.
C4_MissingIdentifierRejected ==
    \A r \in Requests :
        (pc[r] \notin {"idle", "validate"} /\ ~Truthy(req[r].address)) =>
            /\ pc[r] = "done"
            /\ res[r] = [status |-> 400, type |-> "application/json",
                         body |-> "Valid Ethereum address is required",
                         image |-> NoCanvas]
            /\ ops[r] = << >>
            /\ seed[r] = NoSeed /\ canvas[r] = NoCanvas /\ buffer[r] = NoBuffer
            /\ fetch[r] = "none"

C4_Witness ==
    \E r \in Requests :
        /\ pc[r] = "done" /\ req[r].address = "" /\ req[r].data = "x"
        /\ res[r].status = 400

\* C5: a request whose watermark fetch fails is answered 500 with the
\* generic JSON error and never with PNG bytes; a PNG is sent only with the
\* whole pattern, the gradient and the watermark drawn.
C5_FetchFailureFailsRequest ==
    \A r \in Requests :
        /\ fetch[r] = "rejected" =>
              /\ res[r] = [status |-> 500, type |-> "application/json",
                           body |-> "Internal server error", image |-> NoCanvas]
              /\ \A k \in 1 .. Len(ops[r]) : ops[r][k] \notin {"watermark", "png", "send"}
        /\ res[r].type = "image/png" =>
              /\ fetch[r] = "resolved"
              /\ res[r].image.tiles = gridSize * gridSize
              /\ res[r].image.layers = <<"pattern", "gradient", "watermark">>

C5_Witness ==
    \E r \in Requests : fetch[r] = "rejected" /\ res[r].status = 500 /\ pc[r] = "done"

PipelineOrder ==
    <<"seed", "canvas", "pattern", "gradient", "fetch", "watermark", "png", "send">>

\* C6: the steps of a request happen in one order, none skipped or
\* repeated: seed, canvas, pattern over all cells, gradient, fetch,
\* watermark, PNG, send; a request answered with the image has done all.
C6_StepsInOrder ==
    \A r \in Requests :
        /\ Len(ops[r]) <= Len(PipelineOrder)
        /\ ops[r] = SubSeq(PipelineOrder, 1, Len(ops[r]))
        /\ res[r].status = 200 => ops[r] = PipelineOrder
        /\ Len(ops[r]) >= 3 /\ pc[r] # "done" => canvas[r].tiles = gridSize * gridSize
        /\ Len(ops[r]) >= 4 /\ pc[r] # "done" =>
              SubSeq(canvas[r].layers, 1, 2) = <<"pattern", "gradient">>

C6_Witness ==
    \E r \in Requests : res[r].status = 200 /\ ops[r] = PipelineOrder

\* C7: requests share no mutable state: a request that begins to draw its
\* pattern finds the generator it draws from as it is when the request runs
\* alone, whatever the other requests have done.
C7_OwnRandomState ==
    \A r \in Requests :
        (pc[r] = "bg" /\ cell[r] = <<0, 0>>) => mathRandomCalls = 0

\* C8: two requests with the same identifier and different auxiliary data
\* derive different seeds.
C8_SeedDependsOnAux ==
    \A r1, r2 \in Requests :
        (/\ seed[r1] # NoSeed /\ seed[r2] # NoSeed
         /\ req[r1].address = req[r2].address
         /\ Truthy(req[r1].data) /\ Truthy(req[r2].data)
         /\ req[r1].data # req[r2].data)
            => seed[r1] # seed[r2]

\* The cells of drawPattern's two loops.
Cells == (0 .. gridSize - 1) \X (0 .. gridSize - 1)

\* C9: the tiles drawPattern has painted when it returns tile the canvas:
\* every pixel of the canvas lies in exactly one of them, and no tile
\* reaches past the canvas.
C9_TilesCoverCanvasOnce ==
    (pc[1] = "gradient" /\ canvas[1].tiles = Cardinality(Cells)) =>
        /\ \A px \in 0 .. CanvasSize - 1 : \A py \in 0 .. CanvasSize - 1 :
               Cardinality({c \in Cells : InTile(px, py, c[1], c[2])}) = 1
        /\ \A c \in Cells :
               /\ TileOrigin(c[1]) >= 0 /\ TileOrigin(c[1]) + boxSize <= CanvasSize
               /\ TileOrigin(c[2]) >= 0 /\ TileOrigin(c[2]) + boxSize <= CanvasSize

C9_Witness == pc[1] = "gradient" /\ canvas[1].tiles = gridSize * gridSize

\* C10: the redraw loop ends for every cell, so a request that has entered
\* drawPattern reaches the gradient step.
C10_PatternTerminates ==
    (pc[1] \in {"bg", "fg", "while", "fill"}) ~> (pc[1] = "gradient")

C10_Witness ==
    /\ pc[1] = "while"
    /\ elementColorIndex[1] = bgColorIndex[1]
    /\ cell[1] = <<gridSize - 1, gridSize - 1>>

====
